---- MODULE Spec2Model ----
(***************************************************************************)
(* Model of the foundation-model forecasting adapters of mmf_sa:           *)
(*   src/mmf_sa/models/moiraiforecast/MoiraiPipeline.py                    *)
(*   src/mmf_sa/models/momentforecast/MomentPipeline.py                    *)
(* The two forecasters share prepare_data, create_horizon_timestamps_udf,  *)
(* predict and calculate_metrics line for line; they differ in the         *)
(* forecast UDF and in where the pretrained weights are loaded.            *)
(*                                                                         *)
(* Each component is a small state machine of its own (SpecGroup,          *)
(* SpecHorizon, ...).  A component's specification leaves the variables of *)
(* the other components at their idle values.                              *)
(***************************************************************************)
EXTENDS Integers, Sequences, FiniteSets, TLC

VARIABLES
    params,        \* the forecaster's configuration (self.params)
    forecaster,    \* the class of the forecaster (MoiraiSmall, ..., Moment1Large)
    one_ts_offset,\* the frequency offset of the forecaster (self.one_ts_offset)
    df,            \* the row table handed to prepare_data / predict
    hist_df,       \* prepare_data: the grouped table it returns
    gpc,           \* prepare_data: "idle" | "start" | "grouped"
    forecast_df,   \* predict: the table it returns
    ppc,           \* predict: "idle" | "start" | "returned" | "raised"
    perr,          \* predict: the error it raised, "none" if none
    val_df,        \* calculate_metrics: the table of the actual values
    pred_df,       \* calculate_metrics: the table predict returned
    keys,          \* calculate_metrics: the unique keys of pred_df, in order
    ki,            \* calculate_metrics: the position of the loop in keys
    metrics,       \* calculate_metrics: the list of metric records
    cpc,           \* calculate_metrics: "idle" | "start" | "predicted" | "loop" | "returned" | "raised"
    cerr,          \* calculate_metrics: the error it raised, "none" if none
    work,          \* calculate_metrics: the <<step, entity>> pairs of the work done so far
    udf_in,        \* a UDF run: the batches of the partition it is handed
    udf_out,       \* a UDF run: what the UDF yielded, and its error if it raised
    upc,           \* a UDF run: "idle" | "start" | "done"
    instances,     \* driver process: the forecasters constructed so far, in order
    installs,      \* driver process: the invocations of the package installer
    predicts,      \* driver process: the predict calls made
    tasks,         \* worker process: the UDF invocations waiting for it
    wpc,           \* worker process: "idle" | "iterating" (inside a UDF invocation)
    wloads,        \* worker process: the from_pretrained calls it has made
    wstarted,      \* worker process: the UDF invocations it has started, per family
    wbatches,      \* worker process: the batches of the current invocation
    wseries        \* worker process: the series of the current invocation inferred on

confVars == <<params, forecaster, one_ts_offset>>
groupVars == <<hist_df, gpc>>
predictVars == <<forecast_df, ppc, perr>>
metricVars == <<val_df, pred_df, keys, ki, metrics, cpc, cerr, work>>
udfVars == <<udf_in, udf_out, upc>>
procVars == <<instances, installs, predicts, tasks, wpc, wloads, wstarted, wbatches, wseries>>
vars == <<confVars, df, groupVars, predictVars, metricVars, udfVars, procVars>>

(***************************************************************************)
(* Bounds and input domains.                                               *)
(***************************************************************************)
MaxRows == 3

Entities == {"A", "B"}
Timestamps == {1, 2}
Values == {5, 7}

\* A cell of a nullable column: <<>> is a null, <<v>> holds v.
Null == <<>>
Some(v) == <<v>>

Range(s) == {s[i] : i \in 1..Len(s)}

(***************************************************************************)
(* prepare_data: groupBy(group_id).agg(collect_list(date_col) AS ds,       *)
(*                                     collect_list(target) AS y)          *)
(***************************************************************************)
\* One row of the input table under configuration p.
Row(p, e, t, v) == (p.group_id :> e) @@ (p.date_col :> t) @@ (p.target :> v)

\* The rows of `rows` (a sequence) that belong to group `key`, in order.
GroupRows(rows, col, key) == SelectSeq(rows, LAMBDA r : r[col] = key)

\* Spark's collect_list aggregate: the non-null cells of a column, in the
\* order the rows reach the aggregator.
CollectList(rows, col) ==
    LET present == SelectSeq(rows, LAMBDA r : r[col] # Null)
    IN  [i \in 1..Len(present) |-> present[i][col][1]]

\* The rows in the order they reach the aggregation: a groupBy shuffles, so
\* the order is any permutation `order` of the input positions.
Arrival(rows, order) == [i \in 1..Len(rows) |-> rows[order[i]]]

Orders(n) == {f \in [1..n -> 1..n] : \A i, j \in 1..n : f[i] = f[j] => i = j}

\* The grouped table: its schema (the grouping column and the two aliases)
\* and one row per key with the two collected arrays.
GroupByAgg(p, rows) ==
    LET groups == {rows[i][p.group_id] : i \in 1..Len(rows)}
    IN  [columns |-> {p.group_id, "ds", "y"},
         rows |-> { (p.group_id :> k)
                    @@ ("ds" :> CollectList(GroupRows(rows, p.group_id, k), p.date_col))
                    @@ ("y" :> CollectList(GroupRows(rows, p.group_id, k), p.target))
                    : k \in groups }]

\* The tables prepare_data may be given: at most MaxRows rows, every
\* timestamp present, every (entity, timestamp) pair at most once, the
\* target possibly null.
RowsOver(p, cells) == {Row(p, e, Some(t), v) : e \in Entities, t \in Timestamps, v \in cells}

RowSet(p) == RowsOver(p, {Null} \cup {Some(x) : x \in Values})

UniquePairs(p, rows) ==
    \A i, j \in 1..Len(rows) :
        (rows[i][p.group_id] = rows[j][p.group_id] /\ rows[i][p.date_col] = rows[j][p.date_col]) => i = j

TablesOver(p, rowSet, maxRows) == {t \in UNION {[1..n -> rowSet] : n \in 0..maxRows} : UniquePairs(p, t)}

Tables(p, maxRows) == TablesOver(p, RowSet(p), maxRows)

\* The configurations of the runs: the library's default column names and
\* those of run_external_regressors_daily.
Config(g, d, t, pl, m) == [group_id |-> g, date_col |-> d, target |-> t, prediction_length |-> pl, metric |-> m]

NameConfigs == {Config("unique_id", "ds", "y", 1, "smape"), Config("Store", "Date", "Sales", 1, "smape")}

Kinds == {"MoiraiSmall", "MoiraiBase", "MoiraiLarge", "Moment1Large"}

NoTable == [columns |-> {}, rows |-> {}]

IdleGroup == hist_df = NoTable /\ gpc = "idle"

IdlePredict == forecast_df = <<>> /\ ppc = "idle" /\ perr = "none"

IdleMetrics ==
    /\ val_df = <<>> /\ pred_df = <<>> /\ keys = <<>> /\ ki = 0 /\ metrics = <<>>
    /\ cpc = "idle" /\ cerr = "none" /\ work = {}

NoOutput == [error |-> "none", yields |-> <<>>]

IdleUdf == udf_in = <<>> /\ udf_out = NoOutput /\ upc = "idle"

IdleProc ==
    /\ instances = <<>> /\ installs = 0 /\ predicts = 0 /\ tasks = <<>>
    /\ wpc = "idle" /\ wloads = 0 /\ wstarted = [moirai |-> 0, moment |-> 0]
    /\ wbatches = 0 /\ wseries = 0

InitGroup ==
    /\ params \in NameConfigs
    /\ forecaster = "MoiraiSmall"
    /\ one_ts_offset = 1
    /\ df \in Tables(params, MaxRows)
    /\ hist_df = NoTable
    /\ gpc = "start"
    /\ IdlePredict
    /\ IdleMetrics
    /\ IdleUdf
    /\ IdleProc

prepare_data ==
    /\ gpc = "start"
    /\ \E order \in Orders(Len(df)) :
           hist_df' = GroupByAgg(params, Arrival(df, order))
    /\ gpc' = "grouped"
    /\ UNCHANGED <<procVars, confVars, df, predictVars, metricVars, udfVars>>

NextGroup == prepare_data

SpecGroup == InitGroup /\ [][NextGroup]_vars

(***************************************************************************)
(* The UDFs.  A UDF is handed the batches of one partition as an iterator  *)
(* (a sequence of batches, a batch being a sequence of series) and yields  *)
(* pandas Series (sequences of per-series results).                        *)
(***************************************************************************)
\* A mutation of series.max(): the timestamp of the last row.
SeriesLast(series) == series[Len(series)]

\* series.max()
SeriesMax(series) == CHOOSE m \in Range(series) : \A x \in Range(series) : x <= m

RECURSIVE HorizonLoop(_, _, _, _)
\* for i in range(prediction_length): last = last + one_ts_offset; append(last)
HorizonLoop(last, n, offset, horizon_timestamps) ==
    IF n <= 0 THEN horizon_timestamps
    ELSE HorizonLoop(last + offset, n - 1, offset, Append(horizon_timestamps, last + offset))

\* A mutation of the per-series loop: the last observed timestamp is
\* appended before the loop.
HorizonTimestampsFromLast(series, prediction_length, offset) ==
    HorizonLoop(SeriesMax(series), prediction_length, offset, <<SeriesMax(series)>>)

\* The body of the per-series loop of horizon_timestamps_udf.
HorizonTimestamps(series, prediction_length, offset) ==
    HorizonLoop(SeriesMax(series), prediction_length, offset, <<>>)

RECURSIVE HorizonBatches(_, _, _, _)
\* The batch loop of horizon_timestamps_udf: batch_horizon_timestamps is
\* created before the loop and grows over all batches.
HorizonBatches(batch_iterator, prediction_length, offset, batch_horizon_timestamps) ==
    IF batch_iterator = <<>> THEN batch_horizon_timestamps
    ELSE LET batch == Head(batch_iterator)
         IN  HorizonBatches(Tail(batch_iterator), prediction_length, offset,
                 batch_horizon_timestamps
                 \o [i \in 1..Len(batch) |-> HorizonTimestamps(batch[i], prediction_length, offset)])

\* horizon_timestamps_udf: one yield, after the last batch.
horizon_timestamps_udf(batch_iterator, prediction_length, offset) ==
    [error |-> "none",
     yields |-> <<HorizonBatches(batch_iterator, prediction_length, offset, <<>>)>>]

\* The pretrained repository of each forecaster class.
Repo(kind) ==
    CASE kind = "MoiraiSmall" -> "Salesforce/moirai-1.0-R-small"
      [] kind = "MoiraiBase" -> "Salesforce/moirai-1.0-R-base"
      [] kind = "MoiraiLarge" -> "Salesforce/moirai-1.0-R-base"
      [] kind = "Moment1Large" -> "AutonLab/MOMENT-1-large"

\* One Moirai inference: a MoiraiForecast wrapper with context_length =
\* len(series) around the loaded module, called on the whole series, all
\* observed and none padded; the median of the samples.  The network is
\* external: step k of its forecast is the term naming what it was given.
MoiraiForecastOne(repo, prediction_length, series) ==
    [k \in 1..prediction_length |->
        [model |-> "moirai", module |-> repo, context_length |-> Len(series),
         past_target |-> series, step |-> k]]

\* A local name of a generator: unbound until its first assignment.
Unbound == [bound |-> FALSE, value |-> <<>>]
Bound(v) == [bound |-> TRUE, value |-> v]

RECURSIVE MoiraiBatches(_, _, _, _)
\* The batch loop of the Moirai predict_udf: median = [] at the start of
\* every batch.
MoiraiBatches(batch_iterator, repo, prediction_length, median) ==
    IF batch_iterator = <<>> THEN median
    ELSE LET batch == Head(batch_iterator)
         IN  MoiraiBatches(Tail(batch_iterator), repo, prediction_length,
                 Bound([i \in 1..Len(batch) |-> MoiraiForecastOne(repo, prediction_length, batch[i])]))

\* The Moirai predict_udf: one yield of `median`, after the last batch.
moirai_predict_udf(batch_iterator, repo, prediction_length) ==
    LET median == MoiraiBatches(batch_iterator, repo, prediction_length, Unbound)
    IN  IF median.bound THEN [error |-> "none", yields |-> <<median.value>>]
        ELSE [error |-> "UnboundLocalError", yields |-> <<>>]

ContextLen == 512

Zeros(n) == [i \in 1..n |-> 0]
Ones(n) == [i \in 1..n |-> 1]

\* A mutation of the context: a long series is cut to its first 512 values.
MomentContextHead(series) ==
    LET context == series
    IN  IF Len(context) < ContextLen
        THEN [input_mask |-> Ones(Len(context)) \o Zeros(ContextLen - Len(context)),
              context |-> context \o Zeros(ContextLen - Len(context))]
        ELSE [input_mask |-> Ones(ContextLen),
              context |-> SubSeq(context, 1, ContextLen)]

\* The context buffer and the input mask the Moment predict_udf builds for
\* one series.
MomentContext(series) ==
    LET context == series
    IN  IF Len(context) < ContextLen
        THEN [input_mask |-> Ones(Len(context)) \o Zeros(ContextLen - Len(context)),
              context |-> context \o Zeros(ContextLen - Len(context))]
        ELSE [input_mask |-> Ones(ContextLen),
              context |-> SubSeq(context, Len(context) - ContextLen + 1, Len(context))]

\* One Moment inference: self.model(context, input_mask=input_mask), whose
\* forecast head has forecast_horizon = prediction_length.  The network is
\* external: step k of its forecast is the term naming what it was given.
\* output.forecast has shape (1, 1, horizon); squeeze().tolist() is the list
\* of its values for a horizon of two steps or more, which is what the runs
\* of a Moment forecaster below are configured with.
MomentForecastOne(prediction_length, series) ==
    LET c == MomentContext(series)
    IN  [k \in 1..prediction_length |->
            [model |-> "moment", context |-> c.context, input_mask |-> c.input_mask, step |-> k]]

RECURSIVE MomentBatches(_, _, _)
\* The batch loop of the Moment predict_udf: batch_forecast = [] at the
\* start of every batch.
MomentBatches(batch_iterator, prediction_length, batch_forecast) ==
    IF batch_iterator = <<>> THEN batch_forecast
    ELSE LET batch == Head(batch_iterator)
         IN  MomentBatches(Tail(batch_iterator), prediction_length,
                 Bound([i \in 1..Len(batch) |-> MomentForecastOne(prediction_length, batch[i])]))

\* The Moment predict_udf: one yield of `batch_forecast`, after the last batch.
moment_predict_udf(batch_iterator, prediction_length) ==
    LET batch_forecast == MomentBatches(batch_iterator, prediction_length, Unbound)
    IN  IF batch_forecast.bound THEN [error |-> "none", yields |-> <<batch_forecast.value>>]
        ELSE [error |-> "UnboundLocalError", yields |-> <<>>]

\* The forecast UDF predict builds for a forecaster of class `kind`.
forecast_udf(kind, batch_iterator, prediction_length) ==
    IF kind = "Moment1Large" THEN moment_predict_udf(batch_iterator, prediction_length)
    ELSE moirai_predict_udf(batch_iterator, Repo(kind), prediction_length)

\* The (entity, timestamp, value) triples of the input table.
Triples(p, rows) == {<<rows[i][p.group_id], rows[i][p.date_col], rows[i][p.target]>> : i \in 1..Len(rows)}

Min(a, b) == IF a <= b THEN a ELSE b

\* Flattening the grouped table back row-wise: ds[i] is paired with y[i].
Flattened(p, g) ==
    UNION { {<<r[p.group_id], Some(r["ds"][i]), Some(r["y"][i])>> : i \in 1..Min(Len(r["ds"]), Len(r["y"]))}
            : r \in g.rows }

TimeSorted(p, rows) == \A i, j \in 1..Len(rows) : i < j => rows[i][p.date_col][1] <= rows[j][p.date_col][1]

NoNullTarget(p, rows) == \A i \in 1..Len(rows) : rows[i][p.target] # Null

\* C8 (as claimed): for a time-sorted table with unique (entity, timestamp)
\* pairs, grouping and flattening back reproduces exactly the original set
\* of (entity, timestamp, value) triples.
C8_RoundTrip ==
    (gpc = "grouped" /\ TimeSorted(params, df)) => Flattened(params, hist_df) = Triples(params, df)

\* The round trip does hold for the tables that hold no null target.
RoundTripWithoutNulls ==
    (gpc = "grouped" /\ NoNullTarget(params, df)) => Flattened(params, hist_df) = Triples(params, df)

\* C10 (as claimed): every grouped series has len(ds) = len(y) and y[i] is
\* the observation recorded at ds[i], also when some target is null.
C10_Aligned ==
    gpc = "grouped" =>
        \A r \in hist_df.rows :
            /\ Len(r["ds"]) = Len(r["y"])
            /\ \A i \in 1..Len(r["ds"]) :
                   \E k \in 1..Len(df) :
                       /\ df[k][params.group_id] = r[params.group_id]
                       /\ df[k][params.date_col] = Some(r["ds"][i])
                       /\ df[k][params.target] = Some(r["y"][i])

\* The alignment does hold for the tables that hold no null target.
AlignedWithoutNulls ==
    (gpc = "grouped" /\ NoNullTarget(params, df)) =>
        \A r \in hist_df.rows :
            /\ Len(r["ds"]) = Len(r["y"])
            /\ \A i \in 1..Len(r["ds"]) :
                   \E k \in 1..Len(df) :
                       /\ df[k][params.group_id] = r[params.group_id]
                       /\ df[k][params.date_col] = Some(r["ds"][i])
                       /\ df[k][params.target] = Some(r["y"][i])

(***************************************************************************)
(* predict: prepare_data, the two UDFs over the grouped rows, toPandas,    *)
(* reset_index and the rename to the configured column names.              *)
(***************************************************************************)
MaxPredictRows == 2
MaxPred == 2

\* The sequences that list the members of a finite set once each: the
\* orders in which a shuffle may deliver them.
Enumerations(S) == {f \in [1..Cardinality(S) -> S] : \A i, j \in 1..Cardinality(S) : f[i] = f[j] => i = j}

\* The batches of the partition that holds the rows: none when there is no
\* row, one batch otherwise.
OneBatch(column) == IF column = <<>> THEN <<>> ELSE <<column>>

\* The Series a UDF yielded, end to end.
RECURSIVE Concat(_)
Concat(yields) == IF yields = <<>> THEN <<>> ELSE Head(yields) \o Concat(Tail(yields))

\* DataFrame.rename(columns=mapping) on one row.
Rename(row, mapping) ==
    LET NewName(c) == IF c \in DOMAIN mapping THEN mapping[c] ELSE c
    IN  [n \in {NewName(c) : c \in DOMAIN row} |-> row[CHOOSE c \in DOMAIN row : NewName(c) = n]]

\* predict on the rows as they reach the aggregation (`arrived`), the grouped
\* rows leaving the repartition in the order `grouped`.
Predict(kind, p, offset, arrived, grouped) ==
    LET h == GroupByAgg(p, arrived)
    IN  IF "unique_id" \notin h.columns
        THEN [error |-> "AttributeError", forecast_df |-> <<>>]
        ELSE LET ds == horizon_timestamps_udf(OneBatch([i \in 1..Len(grouped) |-> grouped[i]["ds"]]),
                                              p.prediction_length, offset)
                 y == forecast_udf(kind, OneBatch([i \in 1..Len(grouped) |-> grouped[i]["y"]]),
                                   p.prediction_length)
             IN  IF y.error # "none"
                 THEN [error |-> y.error, forecast_df |-> <<>>]
                 ELSE [error |-> "none",
                       forecast_df |->
                           [i \in 1..Len(grouped) |->
                               Rename(("index" :> i - 1)
                                      @@ ("unique_id" :> grouped[i]["unique_id"])
                                      @@ ("ds" :> Concat(ds.yields)[i])
                                      @@ ("y" :> Concat(y.yields)[i]),
                                      ("unique_id" :> p.group_id) @@ ("ds" :> p.date_col) @@ ("y" :> p.target))]]

\* Every outcome of predict on the table `rows`.
PredictOutcomes(kind, p, offset, rows) ==
    UNION { {Predict(kind, p, offset, Arrival(rows, order), grouped)
                : grouped \in Enumerations(GroupByAgg(p, Arrival(rows, order)).rows)}
            : order \in Orders(Len(rows)) }

PredictConfigs == {Config(c.group_id, c.date_col, c.target, pl, "smape") : c \in NameConfigs, pl \in 1..MaxPred}

InitPredict ==
    /\ params \in PredictConfigs
    /\ forecaster \in Kinds
    /\ forecaster = "Moment1Large" => params.prediction_length >= 2
    /\ one_ts_offset = 1
    /\ df \in Tables(params, MaxPredictRows) \ {<<>>}
    /\ IdleGroup
    /\ forecast_df = <<>>
    /\ ppc = "start"
    /\ perr = "none"
    /\ IdleMetrics
    /\ IdleUdf
    /\ IdleProc

predict ==
    /\ ppc = "start"
    /\ \E r \in PredictOutcomes(forecaster, params, one_ts_offset, df) :
           /\ forecast_df' = r.forecast_df
           /\ perr' = r.error
           /\ ppc' = IF r.error = "none" THEN "returned" ELSE "raised"
    /\ UNCHANGED <<procVars, confVars, df, groupVars, metricVars, udfVars>>

NextPredict == predict

SpecPredict == InitPredict /\ [][NextPredict]_vars

EntitiesOf(p, rows) == {rows[i][p.group_id] : i \in 1..Len(rows)}

TimestampsOf(p, rows, e) == {rows[i][p.date_col][1] : i \in {j \in 1..Len(rows) : rows[j][p.group_id] = e}}

\* The table predict is to return: one row per entity, keyed under the
\* configured group_id, the future timestamps under date_col and a forecast
\* of the horizon's length under target.
ConfiguredTable ==
    /\ Len(forecast_df) = Cardinality(EntitiesOf(params, df))
    /\ {forecast_df[i][params.group_id] : i \in 1..Len(forecast_df)} = EntitiesOf(params, df)
    /\ \A i \in 1..Len(forecast_df) :
           LET e == forecast_df[i][params.group_id]
               last == CHOOSE t \in TimestampsOf(params, df, e) : \A u \in TimestampsOf(params, df, e) : u <= t
           IN  /\ forecast_df[i][params.date_col] = [k \in 1..params.prediction_length |-> last + k * one_ts_offset]
               /\ Len(forecast_df[i][params.target]) = params.prediction_length

\* C4 (as claimed): under every configuration of the column names predict
\* returns the table keyed under the configured names.
C4_ConfiguredNames == ppc # "start" => (ppc = "returned" /\ ConfiguredTable)

\* With group_id = "unique_id" predict does return that table.
PredictWithDefaultGroupId ==
    (ppc # "start" /\ params.group_id = "unique_id") => (ppc = "returned" /\ ConfiguredTable)

(***************************************************************************)
(* calculate_metrics: predict, the keys, the check of the configured       *)
(* metric, then one loop iteration per key with the metric computed inside *)
(* try / except: pass.  The method is the same text in both forecasters    *)
(* and reads a forecast only as an array; it is run here on a Moirai       *)
(* forecaster.                                                             *)
(***************************************************************************)
MaxValRows == 2

RECURSIVE Unique(_, _)
\* Series.unique(): the values in order of first appearance.
Unique(s, seen) ==
    IF s = <<>> THEN <<>>
    ELSE IF Head(s) \in seen THEN Unique(Tail(s), seen)
         ELSE <<Head(s)>> \o Unique(Tail(s), seen \cup {Head(s)})

\* val_df[val_df[group_id] == key][target].to_numpy(): the target cells of
\* the key's rows, a missing value staying in the array (NaN).
Actual(p, val, key) ==
    LET rows == GroupRows(val, p.group_id, key)
    IN  [i \in 1..Len(rows) |-> rows[i][p.target]]

\* pred_df[pred_df[group_id] == key][target].to_numpy()[0]
Forecast(p, pred, key) == GroupRows(pred, p.group_id, key)[1][p.target]

\* Whether mean_absolute_percentage_error(actual, forecast, symmetric=True)
\* raises: on no sample, on arrays of different lengths, on a missing value.
MetricRaises(actual, forecast) ==
    \/ Len(actual) = 0
    \/ Len(actual) # Len(forecast)
    \/ Null \in Range(actual)

\* The record one iteration appends.
MetricRecord(key, date, metric_name, actual, forecast) ==
    [key |-> key, curr_date |-> date, metric_name |-> metric_name,
     metric_value |-> [smape |-> <<actual, forecast>>],
     actual |-> actual, forecast |-> forecast, model |-> ""]

CurrDate == CHOOSE t \in Timestamps : \A u \in Timestamps : u <= t

MetricConfigs ==
    {Config(c.group_id, c.date_col, c.target, pl, m) : c \in NameConfigs, pl \in 1..MaxPred, m \in {"smape", "mape"}}

InitMetrics ==
    /\ params \in MetricConfigs
    /\ forecaster = "MoiraiSmall"
    /\ one_ts_offset = 1
    /\ df \in TablesOver(params, RowsOver(params, {Some(5)}), MaxPredictRows) \ {<<>>}
    /\ val_df \in TablesOver(params, RowsOver(params, {Null, Some(5)}), MaxValRows)
    /\ IdleGroup
    /\ IdlePredict
    /\ pred_df = <<>> /\ keys = <<>> /\ ki = 0 /\ metrics = <<>>
    /\ cpc = "start" /\ cerr = "none" /\ work = {}
    /\ IdleUdf
    /\ IdleProc

\* Line 93: pred_df, model_pretrained = self.predict(...).  The select of
\* predict raises before any Spark job runs; toPandas runs the grouping and
\* both UDFs over every entity.
calculate_metrics_predict ==
    /\ cpc = "start"
    /\ \E r \in PredictOutcomes(forecaster, params, one_ts_offset, df) :
           /\ pred_df' = r.forecast_df
           /\ cerr' = r.error
           /\ cpc' = IF r.error = "none" THEN "predicted" ELSE "raised"
           /\ work' = IF r.error = "AttributeError" THEN work
                      ELSE work \cup ({"grouping", "horizon_timestamps", "inference"} \X EntitiesOf(params, df))
    /\ UNCHANGED <<procVars, udfVars, confVars, df, groupVars, predictVars, val_df, keys, ki, metrics>>

\* Lines 94-99: the keys, the empty list and the check of the metric.
calculate_metrics_check ==
    /\ cpc = "predicted"
    /\ keys' = Unique([i \in 1..Len(pred_df) |-> pred_df[i][params.group_id]], {})
    /\ metrics' = <<>>
    /\ IF params.metric = "smape"
       THEN cpc' = "loop" /\ ki' = 1 /\ cerr' = cerr
       ELSE cpc' = "raised" /\ ki' = ki /\ cerr' = "NotSupported"
    /\ UNCHANGED <<procVars, udfVars, confVars, df, groupVars, predictVars, val_df, pred_df, work>>

\* A mutation of the loop body: the metric computed outside any try.
calculate_metrics_iteration_no_try ==
    /\ cpc = "loop"
    /\ ki <= Len(keys)
    /\ LET key == keys[ki]
           actual == Actual(params, val_df, key)
           forecast == Forecast(params, pred_df, key)
       IN  /\ IF MetricRaises(actual, forecast)
              THEN metrics' = metrics /\ cpc' = "raised" /\ cerr' = "ValueError"
              ELSE /\ metrics' = metrics \o <<MetricRecord(key, CurrDate, "smape", actual, forecast)>>
                   /\ cpc' = cpc /\ cerr' = cerr
           /\ work' = work \cup {<<"metric", key>>}
    /\ ki' = ki + 1
    /\ UNCHANGED <<procVars, udfVars, confVars, df, groupVars, predictVars, val_df, pred_df, keys>>

\* Lines 100-117: one iteration of the loop over the keys.
calculate_metrics_iteration ==
    /\ cpc = "loop"
    /\ ki <= Len(keys)
    /\ LET key == keys[ki]
           actual == Actual(params, val_df, key)
           forecast == Forecast(params, pred_df, key)
       IN  /\ metrics' = IF MetricRaises(actual, forecast) THEN metrics
                         ELSE metrics \o <<MetricRecord(key, CurrDate, "smape", actual, forecast)>>
           /\ work' = work \cup {<<"metric", key>>}
    /\ ki' = ki + 1
    /\ UNCHANGED <<procVars, udfVars, confVars, df, groupVars, predictVars, val_df, pred_df, keys, cpc, cerr>>

\* Line 118: return metrics.
calculate_metrics_return ==
    /\ cpc = "loop"
    /\ ki > Len(keys)
    /\ cpc' = "returned"
    /\ UNCHANGED <<procVars, udfVars, confVars, df, groupVars, predictVars, val_df, pred_df, keys, ki, metrics, cerr, work>>

NextMetrics ==
    \/ calculate_metrics_predict
    \/ calculate_metrics_check
    \/ calculate_metrics_iteration
    \/ calculate_metrics_return

SpecMetrics == InitMetrics /\ [][NextMetrics]_vars

\* C1 (as claimed): when calculate_metrics ends in the 'not supported'
\* error, no grouping, horizon generation, inference or metric step has been
\* performed for any entity.
C1_RaisesBeforeAnyWork == (cpc = "raised" /\ cerr = "NotSupported") => work = {}

\* The error is raised before any per-entity metric step.
RaisesBeforeMetricSteps ==
    (cpc = "raised" /\ cerr = "NotSupported") => (metrics = <<>> /\ \A w \in work : w[1] # "metric")

\* The keys among `ks` whose metric computation does not raise, in order.
NotRaising(ks) ==
    SelectSeq(ks, LAMBDA k : ~MetricRaises(Actual(params, val_df, k), Forecast(params, pred_df, k)))

\* C2: with metric "smape", once predict has returned the call surfaces no
\* error, and the list holds exactly one record for each key whose metric
\* computation did not raise, in the order of the keys, and none for a key
\* whose computation raised.
C2_SkipsRaisingEntities ==
    /\ (cpc = "raised" /\ params.metric = "smape") => cerr \in {"AttributeError", "UnboundLocalError"}
    /\ cpc \in {"loop", "returned"} =>
           LET done == NotRaising(SubSeq(keys, 1, ki - 1))
           IN  /\ Len(metrics) = Len(done)
               /\ \A i \in 1..Len(done) :
                      /\ metrics[i].key = done[i]
                      /\ metrics[i].metric_name = "smape"
                      /\ metrics[i].actual = Actual(params, val_df, done[i])
                      /\ metrics[i].forecast = Forecast(params, pred_df, done[i])
    /\ cpc = "returned" => ki = Len(keys) + 1

\* A call that returned with one key skipped and one key recorded.
C2_Witness ==
    /\ cpc = "returned"
    /\ Len(keys) = 2
    /\ Len(metrics) = 1
    /\ \E k \in Range(keys) : MetricRaises(Actual(params, val_df, k), Forecast(params, pred_df, k))

(***************************************************************************)
(* A run of horizon_timestamps_udf over one partition.                     *)
(***************************************************************************)
MaxSeries == 2
MaxSeriesLen == 2

\* The timestamps of the series the UDF is run on, and the offsets.
HorizonDomain == {1, 2, 4}
Offsets == {1, 3}

\* The series of an entity: its timestamps, each once, in any order.
SeriesOver(S, maxLen) ==
    {s \in UNION {[1..n -> S] : n \in 1..maxLen} : \A i, j \in 1..Len(s) : s[i] = s[j] => i = j}

RECURSIVE Cut(_, _, _)
\* The batches of `flat` cut after the positions in `cuts`; `from` is the
\* position the current batch starts at.
Cut(flat, cuts, from) ==
    IF from > Len(flat) THEN <<>>
    ELSE LET to == CHOOSE e \in (cuts \cup {Len(flat)}) :
                       e >= from /\ \A f \in (cuts \cup {Len(flat)}) : f >= from => e <= f
         IN  <<SubSeq(flat, from, to)>> \o Cut(flat, cuts, to + 1)

\* The partitions of at most maxSeries series: every cut of every sequence
\* of series into non-empty batches.
Partitions(seriesSet, maxSeries) ==
    UNION { {Cut(flat, cuts, 1) : cuts \in SUBSET (1..(Len(flat) - 1))}
            : flat \in UNION {[1..n -> seriesSet] : n \in 0..maxSeries} }

InitHorizon ==
    /\ params \in {Config("unique_id", "ds", "y", pl, "smape") : pl \in 1..MaxPred}
    /\ forecaster \in {"MoiraiSmall", "Moment1Large"}
    /\ one_ts_offset \in Offsets
    /\ df = <<>>
    /\ IdleGroup
    /\ IdlePredict
    /\ IdleMetrics
    /\ udf_in \in Partitions(SeriesOver(HorizonDomain, MaxSeriesLen), MaxSeries)
    /\ udf_out = NoOutput
    /\ upc = "start"
    /\ IdleProc

run_horizon_timestamps_udf ==
    /\ upc = "start"
    /\ udf_out' = horizon_timestamps_udf(udf_in, params.prediction_length, one_ts_offset)
    /\ upc' = "done"
    /\ UNCHANGED <<procVars, confVars, df, groupVars, predictVars, metricVars, udf_in>>

NextHorizon == run_horizon_timestamps_udf

SpecHorizon == InitHorizon /\ [][NextHorizon]_vars

\* The sequences of timestamps the UDF produced.
Horizons == Concat(udf_out.yields)

\* C5: every future-timestamp sequence the horizon-timestamps UDF produces
\* has length exactly prediction_length.
C5_HorizonLength ==
    upc = "done" => \A i \in 1..Len(Horizons) : Len(Horizons[i]) = params.prediction_length

\* A run that produced a sequence for a horizon of more than one step.
C5_Witness == upc = "done" /\ Len(Horizons) >= 1 /\ params.prediction_length >= 2

\* C6: the future timestamps of a series are strictly increasing, the first
\* is the maximum observed timestamp plus one offset and each later one the
\* previous plus the offset (the k-th is max(ds) + k * offset), whatever the
\* order of the rows of the series.
C6_HorizonValues ==
    upc = "done" =>
        LET series == Concat(udf_in)
        IN  /\ Len(Horizons) = Len(series)
            /\ \A i \in 1..Len(series) :
                   \E m \in Range(series[i]) :
                       /\ \A x \in Range(series[i]) : x <= m
                       /\ Horizons[i][1] = m + one_ts_offset
                       /\ \A k \in 1..Len(Horizons[i]) : Horizons[i][k] = m + k * one_ts_offset
                       /\ \A k \in 1..(Len(Horizons[i]) - 1) :
                              /\ Horizons[i][k + 1] = Horizons[i][k] + one_ts_offset
                              /\ Horizons[i][k] < Horizons[i][k + 1]

\* A run on a series whose last row does not hold its latest timestamp.
C6_Witness ==
    /\ upc = "done"
    /\ params.prediction_length >= 2
    /\ \E i \in 1..Len(Concat(udf_in)) :
           LET s == Concat(udf_in)[i]
           IN  Len(s) >= 2 /\ s[Len(s)] < s[1] /\ Len(Horizons[i]) >= 2

(***************************************************************************)
(* A run of the Moment predict_udf on one series.                          *)
(***************************************************************************)
Margin == 2

\* The lengths of the series: the shortest, a short one, those around the
\* context length, and well beyond it.
MomentLengths == (1..Margin) \cup {100} \cup ((ContextLen - Margin)..(ContextLen + Margin)) \cup {1000}

\* The series of length n that counts up from base + 1.
Counting(base, n) == [i \in 1..n |-> base + i]

MomentSeries == {Counting(base, n) : base \in {-1, 0, 7, 100}, n \in MomentLengths}

InitMoment ==
    /\ params \in {Config("unique_id", "ds", "y", pl, "smape") : pl \in 2..(MaxPred + 1)}
    /\ forecaster = "Moment1Large"
    /\ one_ts_offset = 1
    /\ df = <<>>
    /\ IdleGroup
    /\ IdlePredict
    /\ IdleMetrics
    /\ udf_in \in {<<<<s>>>> : s \in MomentSeries}
    /\ udf_out = NoOutput
    /\ upc = "start"
    /\ IdleProc

run_moment_predict_udf ==
    /\ upc = "start"
    /\ udf_out' = moment_predict_udf(udf_in, params.prediction_length)
    /\ upc' = "done"
    /\ UNCHANGED <<procVars, confVars, df, groupVars, predictVars, metricVars, udf_in>>

NextMoment == run_moment_predict_udf

SpecMoment == InitMoment /\ [][NextMoment]_vars

\* C7: for a series of length n >= 1 the context and the input mask both
\* have length 512; if n < 512 the context is the series followed by
\* 512 - n zeros and the mask n ones followed by 512 - n zeros; if n >= 512
\* the context is the last 512 values in order and the mask all ones.
C7_MomentContext ==
    upc = "done" =>
        LET series == udf_in[1][1]
            n == Len(series)
            forecast == Concat(udf_out.yields)[1]
        IN  \A k \in 1..Len(forecast) :
                LET context == forecast[k].context
                    input_mask == forecast[k].input_mask
                IN  /\ Len(context) = 512
                    /\ Len(input_mask) = 512
                    /\ n < 512 =>
                           \A i \in 1..512 :
                               /\ context[i] = IF i <= n THEN series[i] ELSE 0
                               /\ input_mask[i] = IF i <= n THEN 1 ELSE 0
                    /\ n >= 512 =>
                           \A i \in 1..512 :
                               /\ context[i] = series[n - 512 + i]
                               /\ input_mask[i] = 1

\* A run on a series one value longer than the context.
C7_Witness ==
    /\ upc = "done"
    /\ Len(udf_in[1][1]) = 513
    /\ Len(Concat(udf_out.yields)[1]) >= 1

(***************************************************************************)
(* The processes.  The driver process constructs forecasters and calls     *)
(* predict; predict repartitions the grouped table and the forecast UDF is *)
(* invoked once for each partition, in a worker process.  One worker       *)
(* process is followed: it runs, one after the other, the invocations that *)
(* land on it.                                                             *)
(***************************************************************************)
MaxConstructions == 2
MaxPredicts == 2
MaxBatches == 2

\* hist_df.repartition(4)
NumPartitions == 4

\* The numbers of series a batch may hold.
BatchSizes == {1, 2}

Family(kind) == IF kind = "Moment1Large" THEN "moment" ELSE "moirai"

\* What a constructor does after the installer has returned 0: Moment1Large
\* imports momentfm, loads the weights and initialises the model.
AfterInstall(kind) ==
    IF kind = "Moment1Large" THEN <<"import", "from_pretrained", "init">> ELSE <<>>

\* A mutation of the constructor: the installer's exit status is not checked
\* (subprocess.call in place of subprocess.check_call).
ConstructIgnoringExit(kind, rc) ==
    /\ Len(instances) < MaxConstructions
    /\ tasks = <<>> /\ wpc = "idle"
    /\ installs' = installs + 1
    /\ instances' = Append(instances,
           [kind |-> kind, status |-> "ready",
            events |-> <<IF rc = 0 THEN "install_ok" ELSE "install_failed">> \o AfterInstall(kind)])
    /\ UNCHANGED <<confVars, df, groupVars, predictVars, metricVars, udfVars>>
    /\ UNCHANGED <<predicts, tasks, wpc, wloads, wstarted, wbatches, wseries>>

\* The construction of a forecaster of class `kind`, the installer exiting
\* with status rc: __init__ runs install() first; check_call raises on a
\* non-zero status and the constructor ends there.
Construct(kind, rc) ==
    /\ Len(instances) < MaxConstructions
    /\ tasks = <<>> /\ wpc = "idle"
    /\ installs' = installs + 1
    /\ instances' = Append(instances,
           IF rc = 0
           THEN [kind |-> kind, status |-> "ready", events |-> <<"install_ok">> \o AfterInstall(kind)]
           ELSE [kind |-> kind, status |-> "failed", events |-> <<"install_failed">>])
    /\ UNCHANGED <<confVars, df, groupVars, predictVars, metricVars, udfVars>>
    /\ UNCHANGED <<predicts, tasks, wpc, wloads, wstarted, wbatches, wseries>>

\* A predict call on the constructed forecaster i: of the NumPartitions
\* invocations of the forecast UDF, n land on the worker process followed.
PredictCall(i, n) ==
    /\ predicts < MaxPredicts
    /\ tasks = <<>> /\ wpc = "idle"
    /\ instances[i].status = "ready"
    /\ predicts' = predicts + 1
    /\ tasks' = [t \in 1..n |-> [instance |-> i, family |-> Family(instances[i].kind)]]
    /\ UNCHANGED <<confVars, df, groupVars, predictVars, metricVars, udfVars>>
    /\ UNCHANGED <<instances, installs, wpc, wloads, wstarted, wbatches, wseries>>

\* The worker enters the next invocation of predict_udf: the Moirai UDF
\* imports uni2ts and loads the module before its batch loop; the Moment UDF
\* uses the model that came with the forecaster.
UdfStart ==
    /\ wpc = "idle"
    /\ tasks # <<>>
    /\ wpc' = "iterating"
    /\ wbatches' = 0
    /\ wstarted' = [wstarted EXCEPT ![Head(tasks).family] = @ + 1]
    /\ wseries' = 0
    /\ wloads' = IF Head(tasks).family = "moirai" THEN wloads + 1 ELSE wloads
    /\ UNCHANGED <<confVars, df, groupVars, predictVars, metricVars, udfVars>>
    /\ UNCHANGED <<instances, installs, predicts, tasks>>

\* A mutation of the batch loop: the module is loaded at the start of each
\* batch.
UdfBatchReloading(n) ==
    /\ wpc = "iterating"
    /\ wbatches < MaxBatches
    /\ wbatches' = wbatches + 1
    /\ wseries' = wseries + n
    /\ wloads' = IF Head(tasks).family = "moirai" THEN wloads + 1 ELSE wloads
    /\ UNCHANGED <<confVars, df, groupVars, predictVars, metricVars, udfVars>>
    /\ UNCHANGED <<instances, installs, predicts, tasks, wpc, wstarted>>

\* One iteration of the batch loop of predict_udf, on a batch of n series:
\* one inference for each series.
UdfBatch(n) ==
    /\ wpc = "iterating"
    /\ wbatches < MaxBatches
    /\ wbatches' = wbatches + 1
    /\ wseries' = wseries + n
    /\ UNCHANGED <<confVars, df, groupVars, predictVars, metricVars, udfVars>>
    /\ UNCHANGED <<instances, installs, predicts, tasks, wpc, wloads, wstarted>>

\* The batch iterator is exhausted: the UDF yields and the invocation ends.
UdfEnd ==
    /\ wpc = "iterating"
    /\ wpc' = "idle"
    /\ tasks' = Tail(tasks)
    /\ UNCHANGED <<confVars, df, groupVars, predictVars, metricVars, udfVars>>
    /\ UNCHANGED <<instances, installs, predicts, wloads, wstarted, wbatches, wseries>>

\* One class of each family is constructed.
ProcKinds == {"MoiraiSmall", "Moment1Large"}

InitProc ==
    /\ params = Config("unique_id", "ds", "y", 1, "smape")
    /\ forecaster = "MoiraiSmall"
    /\ one_ts_offset = 1
    /\ df = <<>>
    /\ IdleGroup
    /\ IdlePredict
    /\ IdleMetrics
    /\ IdleUdf
    /\ IdleProc

NextProc ==
    \/ \E kind \in ProcKinds, rc \in {0, 1} : Construct(kind, rc)
    \/ \E i \in 1..Len(instances), n \in 0..NumPartitions : PredictCall(i, n)
    \/ UdfStart
    \/ \E n \in BatchSizes : UdfBatch(n)
    \/ UdfEnd

SpecProc == InitProc /\ [][NextProc]_vars

\* C3 (as claimed): the worker process performs at most one load of
\* pretrained weights over its lifetime.
C3_LoadedOncePerWorker == wloads <= 1

\* C3 (amended): the weights are loaded once per invocation of the Moirai
\* predict_udf (one partition of one predict call), never per batch or per
\* series, and never by the Moment predict_udf: the loads of the worker
\* process are as many as the Moirai invocations it has started.
C3_LoadedOncePerInvocation == wloads = wstarted.moirai

\* A worker in its second Moirai invocation, two batches and three series
\* into it.
C3_Witness == wstarted.moirai = 2 /\ wloads = 2 /\ wbatches = 2 /\ wseries >= 3

\* The model import and load of every forecaster, in its constructor or in
\* a UDF invocation, follow its own successful install.
InstallBeforeUse ==
    /\ \A i \in 1..Len(instances) :
           LET ev == instances[i].events
           IN  /\ ev[1] \in {"install_ok", "install_failed"}
               /\ \A k \in 2..Len(ev) : ev[k] \notin {"install_ok", "install_failed"} /\ ev[1] = "install_ok"
    /\ \A t \in 1..Len(tasks) : instances[tasks[t].instance].events[1] = "install_ok"

\* A construction whose installer exits non-zero fails: nothing follows the
\* install and no UDF invocation ever belongs to that forecaster.
FailedInstallStops ==
    /\ \A i \in 1..Len(instances) :
           (instances[i].status = "failed" \/ instances[i].events[1] = "install_failed") =>
               (instances[i].status = "failed" /\ instances[i].events = <<"install_failed">>)
    /\ \A t \in 1..Len(tasks) : instances[tasks[t].instance].status = "ready"

\* C9 (as claimed): the installer is invoked once per process, not once per
\* forecaster; it completes before any model import or load; a non-zero
\* exit fails the construction and no load or inference follows.
C9_InstalledOncePerProcess == installs <= 1 /\ InstallBeforeUse /\ FailedInstallStops

\* C9 (amended): the installer is invoked once per forecaster construction;
\* it completes before that forecaster's model import or load; a non-zero
\* exit fails the construction and no load or inference follows.
C9_InstalledOncePerConstruction == installs = Len(instances) /\ InstallBeforeUse /\ FailedInstallStops

\* Two constructions, one failed at the install and one of a Moment
\* forecaster that went on to load its model.
C9_Witness ==
    /\ installs = 2
    /\ \E i, j \in 1..Len(instances) :
           /\ instances[i].status = "failed"
           /\ instances[j].status = "ready" /\ Len(instances[j].events) > 1

(***************************************************************************)
(* A run of one of the UDFs of predict over one partition, handed over as  *)
(* zero or more batches: the forecast UDF of the forecaster on the series  *)
(* of the y column, or horizon_timestamps_udf on those of the ds column.   *)
(***************************************************************************)
InitPartition ==
    /\ params \in {Config("unique_id", "ds", "y", pl, "smape") : pl \in 1..MaxPred}
    /\ forecaster \in Kinds
    /\ forecaster = "Moment1Large" => params.prediction_length >= 2
    /\ one_ts_offset \in Offsets
    /\ df = <<>>
    /\ IdleGroup
    /\ IdlePredict
    /\ IdleMetrics
    /\ udf_in \in Partitions(SeriesOver(HorizonDomain, MaxSeriesLen), MaxSeries)
    /\ udf_out = NoOutput
    /\ upc = "start"
    /\ IdleProc

\* forecast_udf(hist_df.y) on the partition.
run_forecast_udf ==
    /\ upc = "start"
    /\ udf_out' = forecast_udf(forecaster, udf_in, params.prediction_length)
    /\ upc' = "forecast"
    /\ UNCHANGED <<procVars, confVars, df, groupVars, predictVars, metricVars, udf_in>>

\* horizon_timestamps_udf(hist_df.ds) on the partition.
run_horizon_udf ==
    /\ upc = "start"
    /\ udf_out' = horizon_timestamps_udf(udf_in, params.prediction_length, one_ts_offset)
    /\ upc' = "horizon"
    /\ UNCHANGED <<procVars, confVars, df, groupVars, predictVars, metricVars, udf_in>>

NextPartition == run_forecast_udf \/ run_horizon_udf

SpecPartition == InitPartition /\ [][NextPartition]_vars

\* The series of the partition, in input order.
InputSeries == Concat(udf_in)

\* The output elements of the run are one per input series, in input order:
\* the i-th is the forecast, or the horizon, of the i-th series.
OnePerSeries ==
    /\ udf_out.error = "none"
    /\ Len(Concat(udf_out.yields)) = Len(InputSeries)
    /\ \A i \in 1..Len(InputSeries) :
           LET out == Concat(udf_out.yields)[i]
           IN  /\ Len(out) = params.prediction_length
               /\ upc = "horizon" =>
                      \A k \in 1..Len(out) : out[k] = SeriesMax(InputSeries[i]) + k * one_ts_offset
               /\ (upc = "forecast" /\ forecaster # "Moment1Large") =>
                      \A k \in 1..Len(out) : out[k].past_target = InputSeries[i]
               /\ (upc = "forecast" /\ forecaster = "Moment1Large") =>
                      \A k \in 1..Len(out) :
                          SubSeq(out[k].context, 1, Len(InputSeries[i])) = InputSeries[i]

\* C11: for a partition of zero or more batches, the forecast UDF (Moirai
\* and Moment) and the horizon-timestamps UDF each emit in total exactly one
\* output element per input series, in input order; no series of an earlier
\* batch is dropped, and an empty partition yields an empty output without
\* error.
C11_OnePerSeries == upc \in {"forecast", "horizon"} => OnePerSeries

\* The horizon-timestamps UDF alone emits one element per input series.
HorizonOnePerSeries == upc = "horizon" => OnePerSeries

\* The forecast UDF emits one element per input series when the partition
\* is exactly one batch.
ForecastOnePerSeriesInOneBatch == (upc = "forecast" /\ Len(udf_in) = 1) => OnePerSeries

\* The forecast UDF loses the earlier batches of a partition of several.
ForecastKeepsLastBatch ==
    (upc = "forecast" /\ Len(udf_in) >= 1) =>
        /\ udf_out.error = "none"
        /\ Len(Concat(udf_out.yields)) = Len(udf_in[Len(udf_in)])

\* The forecast UDF fails on a partition of no batch.
ForecastFailsOnNoBatch ==
    (upc = "forecast" /\ Len(udf_in) = 0) => udf_out.error = "UnboundLocalError"

(***************************************************************************)
(* The pretrained weights of the Moirai variants.                          *)
(***************************************************************************)
MoiraiKinds == {"MoiraiSmall", "MoiraiBase", "MoiraiLarge"}

\* The size a forecaster class is named for.
VariantSize(kind) ==
    CASE kind = "MoiraiSmall" -> "small"
      [] kind = "MoiraiBase" -> "base"
      [] kind = "MoiraiLarge" -> "large"
      [] kind = "Moment1Large" -> "large"

\* The size of the weights a pretrained repository holds.
WeightsOf(repo) ==
    CASE repo = "Salesforce/moirai-1.0-R-small" -> "small"
      [] repo = "Salesforce/moirai-1.0-R-base" -> "base"
      [] repo = "Salesforce/moirai-1.0-R-large" -> "large"
      [] repo = "AutonLab/MOMENT-1-large" -> "large"

\* The repositories the forecast UDF of a returned predict loaded from: the
\* module of every step of every forecast.
ModulesUsed ==
    {forecast_df[i][params.target][k].module :
        i \in 1..Len(forecast_df), k \in 1..params.prediction_length}

\* C12: the three Moirai variants select three pairwise distinct pretrained
\* repositories matching their size (small, base, large), and the
\* repository predict passes to the predict UDF is the one of the
\* constructed variant.
C12_VariantWeights ==
    (ppc = "returned" /\ forecaster \in MoiraiKinds) =>
        /\ ModulesUsed = {Repo(forecaster)}
        /\ \A repo \in ModulesUsed :
               /\ WeightsOf(repo) = VariantSize(forecaster)
               /\ \A other \in MoiraiKinds \ {forecaster} : Repo(other) # repo

\* The repository predict passes to the predict UDF is the one the
\* constructed variant holds.
RepoOfConstructedVariant ==
    (ppc = "returned" /\ forecaster \in MoiraiKinds) => ModulesUsed = {Repo(forecaster)}

\* MoiraiSmall runs on the small weights, and on a repository of its own.
SmallVariantWeights ==
    (ppc = "returned" /\ forecaster = "MoiraiSmall") =>
        \A repo \in ModulesUsed :
            /\ WeightsOf(repo) = VariantSize(forecaster)
            /\ \A other \in MoiraiKinds \ {forecaster} : Repo(other) # repo

\* MoiraiBase runs on the base weights.
BaseVariantWeights ==
    (ppc = "returned" /\ forecaster = "MoiraiBase") =>
        \A repo \in ModulesUsed : WeightsOf(repo) = VariantSize(forecaster)

====
